---- MODULE Spec2Model ----
(***************************************************************************)
(* Model of jupyterhub/scopes.py: parse_scopes, _check_scope with its      *)
(* helpers, and the needs_scope guard.                                     *)
(*                                                                         *)
(* Python strings are sequences of tokens (<<"read:users", "!", "user",    *)
(* "=", "a">> is "read:users!user=a"), so that str.partition and           *)
(* "{}/{}".format are computed, not assumed.  Python dicts are sequences   *)
(* of <<key, value>> pairs in insertion order, which is the order          *)
(* dict.items() and dict.values() iterate in.                              *)
(***************************************************************************)
EXTENDS Integers, Sequences, FiniteSets

VARIABLES
    pc,              \* "parse": inside parse_scopes' loop; "ready": model built; "done": guard ran
    scope_list,      \* parse_scopes: the entries of scope_list the loop has processed
    parsed_scopes,   \* the scope model (api_handler.parsed_scopes)
    db,              \* the store: users, group membership, services
    req_scope,       \* needs_scope: the decorator's scope
    s_kwargs,        \* needs_scope: the attributes handed to _check_scope
    scope_filter,    \* needs_scope: what _check_scope returned or raised
    response         \* needs_scope: what the guard did

vars == <<pc, scope_list, parsed_scopes, db, req_scope, s_kwargs, scope_filter, response>>

\* Longest raw scope list parsed.
MaxLen == 2

(***************************************************************************)
(* Strings                                                                 *)
(***************************************************************************)
USER == <<"user">>
SERVER == <<"server">>
GROUP == <<"group">>
SERVICE == <<"service">>
SCOPE_FILTER == <<"scope_filter">>
None == <<"None">>

READ_USERS == <<"read:users">>
USERS == <<"users">>

\* str.partition(sep): <<head, sep, tail>>, split at the first sep; no sep: <<s, "", "">>
partition(s, sep) ==
    IF \E i \in DOMAIN s : s[i] = sep
    THEN LET i == CHOOSE j \in DOMAIN s : s[j] = sep /\ \A k \in 1..(j - 1) : s[k] # sep
         IN  <<SubSeq(s, 1, i - 1), <<sep>>, SubSeq(s, i + 1, Len(s))>>
    ELSE <<s, <<>>, <<>>>>

\* "{}/{}".format(a, b)
format_slash(a, b) == a \o <<"/">> \o b

\* "{}!{}={}".format(base, key, val)
ScopeString(base, key, val) == base \o <<"!">> \o key \o <<"=">> \o val

(***************************************************************************)
(* Dicts and lists                                                         *)
(***************************************************************************)
DictHas(d, k) == \E i \in DOMAIN d : d[i][1] = k
DictGet(d, k) == d[CHOOSE i \in DOMAIN d : d[i][1] = k][2]
DictSet(d, k, v) ==
    IF DictHas(d, k)
    THEN [i \in DOMAIN d |-> IF d[i][1] = k THEN <<k, v>> ELSE d[i]]
    ELSE Append(d, <<k, v>>)
DictKeys(d) == {d[i][1] : i \in DOMAIN d}
InList(v, l) == \E i \in DOMAIN l : l[i] = v
ListSet(l) == {l[i] : i \in DOMAIN l}

(***************************************************************************)
(* class Scope(Enum): a scope name maps to Scope.ALL or to a filter dict   *)
(***************************************************************************)
ALL == [all |-> TRUE, map |-> <<>>]
Filtered(d) == [all |-> FALSE, map |-> d]

(***************************************************************************)
(* parse_scopes: the body of the loop, for one entry of scope_list         *)
(***************************************************************************)
\* parse_scopes with a filter clause replacing a metascope already recorded
parse_scope_filter_replaces_all(parsed, entry) ==
    LET p == partition(entry, "!")
        base_scope == p[1]
        filter_ == p[3]
        step1 == IF filter_ = <<>>
                 THEN DictSet(parsed, base_scope, ALL)
                 ELSE IF ~DictHas(parsed, base_scope) \/ DictGet(parsed, base_scope) = ALL
                      THEN DictSet(parsed, base_scope, Filtered(<<>>))
                      ELSE parsed
    IN  IF DictGet(step1, base_scope) # ALL
        THEN LET q == partition(filter_, "=")
                 key == q[1]
                 val == q[3]
                 cur == DictGet(step1, base_scope).map
                 withKey == IF ~DictHas(cur, key) THEN DictSet(cur, key, <<>>) ELSE cur
                 appended == DictSet(withKey, key, Append(DictGet(withKey, key), val))
             IN  DictSet(step1, base_scope, Filtered(appended))
        ELSE step1

\* parse_scopes with a bare entry taking effect only for a name not seen before
parse_scope_first_wins(parsed, entry) ==
    LET p == partition(entry, "!")
        base_scope == p[1]
        filter_ == p[3]
        step1 == IF filter_ = <<>> /\ ~DictHas(parsed, base_scope)
                 THEN DictSet(parsed, base_scope, ALL)
                 ELSE IF ~DictHas(parsed, base_scope)
                      THEN DictSet(parsed, base_scope, Filtered(<<>>))
                      ELSE parsed
    IN  IF DictGet(step1, base_scope) # ALL
        THEN LET q == partition(filter_, "=")
                 key == q[1]
                 val == q[3]
                 cur == DictGet(step1, base_scope).map
                 withKey == IF ~DictHas(cur, key) THEN DictSet(cur, key, <<>>) ELSE cur
                 appended == DictSet(withKey, key, Append(DictGet(withKey, key), val))
             IN  DictSet(step1, base_scope, Filtered(appended))
        ELSE step1

parse_scope(parsed, entry) ==
    LET p == partition(entry, "!")
        base_scope == p[1]
        filter_ == p[3]
        step1 == IF filter_ = <<>>
                 THEN DictSet(parsed, base_scope, ALL)
                 ELSE IF ~DictHas(parsed, base_scope)
                      THEN DictSet(parsed, base_scope, Filtered(<<>>))
                      ELSE parsed
    IN  IF DictGet(step1, base_scope) # ALL
        THEN LET q == partition(filter_, "=")
                 key == q[1]
                 val == q[3]
                 cur == DictGet(step1, base_scope).map
                 withKey == IF ~DictHas(cur, key) THEN DictSet(cur, key, <<>>) ELSE cur
                 appended == DictSet(withKey, key, Append(DictGet(withKey, key), val))
             IN  DictSet(step1, base_scope, Filtered(appended))
        ELSE step1

(***************************************************************************)
(* The store behind handler.find_user and handler.db                       *)
(***************************************************************************)
\* handler.find_user(name): the user row, or None
find_user(store, name) == IF name \in store.users THEN name ELSE None

\* user.groups: the names of the groups the user row belongs to
user_groups(store, user) == {g \in DOMAIN store.groups : user \in store.groups[g]}

\* orm.get_class(kind), then the names of all its rows
resource_names(store, kind) ==
    IF kind = <<"users">> THEN store.users
    ELSE IF kind = <<"groups">> THEN DOMAIN store.groups
    ELSE store.services

(***************************************************************************)
(* _needs_scope_expansion                                                  *)
(***************************************************************************)
_needs_scope_expansion(filter_, filter_value, sub_scope) ==
    IF ~(filter_ = USER /\ DictHas(sub_scope, GROUP))
    THEN FALSE
    ELSE IF DictHas(sub_scope, USER)
         THEN ~InList(filter_value, DictGet(sub_scope, USER))
         ELSE TRUE

(***************************************************************************)
(* _check_user_in_expanded_scope: "True", "False", or the error raised     *)
(***************************************************************************)
\* _check_user_in_expanded_scope accepting membership in any group at all
_check_user_in_any_group(store, user_name, scope_group_names) ==
    LET user == find_user(store, user_name)
    IN  IF user = None
        THEN "HTTPError404"
        ELSE IF user_groups(store, user) # {}
             THEN "True"
             ELSE "False"

_check_user_in_expanded_scope(store, user_name, scope_group_names) ==
    LET user == find_user(store, user_name)
    IN  IF user = None
        THEN "HTTPError404"
        ELSE IF ListSet(scope_group_names) \cap user_groups(store, user) # {}
             THEN "True"
             ELSE "False"

(***************************************************************************)
(* What _check_scope returns or raises, with the collaborator calls made   *)
(***************************************************************************)
Outcome(kind, ids, fu, q) ==
    [kind |-> kind, ids |-> ids, find_user_calls |-> fu, db_queries |-> q]

(***************************************************************************)
(* _get_scope_filter                                                       *)
(***************************************************************************)
scope_translator ==
    << <<READ_USERS, <<"users">> >>,
       <<<<"read:services">>, <<"services">> >>,
       <<<<"read:groups">>, <<"groups">> >> >>

\* next(iter(sub_scope.values()))
first_value(sub_scope) == sub_scope[1][2]

_get_scope_filter(store, req, sub_scope) ==
    IF ~DictHas(scope_translator, req)
    THEN Outcome("AttributeError", {}, 0, 0)
    ELSE LET kind == DictGet(scope_translator, req)
             sub_scope_values == first_value(sub_scope)
             found == resource_names(store, kind) \cap ListSet(sub_scope_values)
         IN  IF DictHas(sub_scope, GROUP) /\ kind = <<"users">>
             THEN LET groups == ListSet(DictGet(sub_scope, GROUP))
                      users_in_groups ==
                          {u \in store.users : user_groups(store, u) \cap groups # {}}
                  IN  Outcome("set", found \cup users_in_groups, 0, 2)
             ELSE Outcome("set", found, 0, 1)

(***************************************************************************)
(* _check_scope                                                            *)
(***************************************************************************)
\* lines 88-89: parse user name and server name together
\* _check_scope matching the server name as given
compose_server_skipped(kwargs) == kwargs

compose_server(kwargs) ==
    IF DictHas(kwargs, USER) /\ DictHas(kwargs, SERVER)
    THEN DictSet(kwargs, SERVER, format_slash(DictGet(kwargs, USER), DictGet(kwargs, SERVER)))
    ELSE kwargs

\* lines 103-112: the loop over kwargs.items(), from item i on
RECURSIVE check_filters(_, _, _, _, _)
check_filters(store, sub_scope, kwargs, i, fu) ==
    IF i > Len(kwargs)
    THEN Outcome("HTTPError404", {}, fu, 0)
    ELSE LET filter_ == kwargs[i][1]
             filter_value == kwargs[i][2]
         IN  IF DictHas(sub_scope, filter_) /\ InList(filter_value, DictGet(sub_scope, filter_))
             THEN Outcome("True", {}, fu, 0)
             ELSE IF _needs_scope_expansion(filter_, filter_value, sub_scope)
                  THEN LET group_names == DictGet(sub_scope, GROUP)
                           r == _check_user_in_expanded_scope(store, filter_value, group_names)
                       IN  IF r = "HTTPError404"
                           THEN Outcome("HTTPError404", {}, fu + 1, 0)
                           ELSE IF r = "True"
                                THEN Outcome("True", {}, fu + 1, 0)
                                ELSE check_filters(store, sub_scope, kwargs, i + 1, fu + 1)
                  ELSE check_filters(store, sub_scope, kwargs, i + 1, fu)

\* _check_scope refusing an empty attribute map before it looks at the scope
_check_scope_empty_first(parsed, store, req, kwargs0) ==
    LET kwargs == compose_server(kwargs0)
    IN  IF ~DictHas(parsed, req) \/ (kwargs = <<>>)
        THEN Outcome("False", {}, 0, 0)
        ELSE IF DictGet(parsed, req) = ALL
             THEN Outcome("True", {}, 0, 0)
             ELSE LET sub_scope == DictGet(parsed, req).map
                  IN  IF DictHas(kwargs, SCOPE_FILTER)
                      THEN _get_scope_filter(store, req, sub_scope)
                      ELSE check_filters(store, sub_scope, kwargs, 1, 0)

\* _check_scope without the `if not kwargs` test of line 100
_check_scope_empty_unchecked(parsed, store, req, kwargs0) ==
    LET kwargs == compose_server(kwargs0)
    IN  IF ~DictHas(parsed, req)
        THEN Outcome("False", {}, 0, 0)
        ELSE IF DictGet(parsed, req) = ALL
             THEN Outcome("True", {}, 0, 0)
             ELSE LET sub_scope == DictGet(parsed, req).map
                  IN  IF DictHas(kwargs, SCOPE_FILTER)
                      THEN _get_scope_filter(store, req, sub_scope)
                      ELSE check_filters(store, sub_scope, kwargs, 1, 0)

_check_scope(parsed, store, req, kwargs0) ==
    LET kwargs == compose_server(kwargs0)
    IN  IF ~DictHas(parsed, req)
        THEN Outcome("False", {}, 0, 0)
        ELSE IF DictGet(parsed, req) = ALL
             THEN Outcome("True", {}, 0, 0)
             ELSE LET sub_scope == DictGet(parsed, req).map
                  IN  IF DictHas(kwargs, SCOPE_FILTER)
                      THEN _get_scope_filter(store, req, sub_scope)
                      ELSE IF kwargs = <<>>
                           THEN Outcome("False", {}, 0, 0)
                           ELSE check_filters(store, sub_scope, kwargs, 1, 0)

(***************************************************************************)
(* needs_scope                                                             *)
(***************************************************************************)
\* lines 160-167: s_kwargs from the bound arguments, the resource set
\* {'user', 'server', 'group', 'service'} iterated in the order `order`
RECURSIVE collect_kwargs(_, _, _, _)
collect_kwargs(arguments, order, i, acc) ==
    IF i > Len(order)
    THEN IF DictHas(arguments, SCOPE_FILTER) THEN DictSet(acc, SCOPE_FILTER, None) ELSE acc
    ELSE LET resource == order[i]
             resource_name == resource \o <<"_name">>
         IN  IF DictHas(arguments, resource_name)
             THEN collect_kwargs(arguments, order, i + 1,
                                 DictSet(acc, resource, DictGet(arguments, resource_name)))
             ELSE collect_kwargs(arguments, order, i + 1, acc)

\* lines 170-191: what the guard does with _check_scope's result
Response(called, filtered, ids, error) ==
    [called |-> called, filtered |-> filtered, ids |-> ids, error |-> error]

\* the guard running the handler for every set, the empty one included
guard_any_set(result) ==
    IF result.kind \in {"HTTPError404", "AttributeError"}
    THEN Response(FALSE, FALSE, {}, result.kind)
    ELSE LET is_set == result.kind = "set"
             truthy == result.kind = "True" \/ is_set
         IN  IF truthy
             THEN Response(TRUE, is_set, IF is_set THEN result.ids ELSE {}, "")
             ELSE Response(FALSE, FALSE, {}, "HTTPError403")

guard(result) ==
    IF result.kind \in {"HTTPError404", "AttributeError"}
    THEN Response(FALSE, FALSE, {}, result.kind)
    ELSE LET is_set == result.kind = "set"
             truthy == result.kind = "True" \/ (is_set /\ result.ids # {})
         IN  IF truthy
             THEN Response(TRUE, is_set, IF is_set THEN result.ids ELSE {}, "")
             ELSE Response(FALSE, FALSE, {}, "HTTPError403")

(***************************************************************************)
(* Inputs                                                                  *)
(***************************************************************************)
A == <<"a">>
G == <<"g">>
H == <<"h">>
D == <<"d">>
X == <<"x">>

UserNames == {A, G}
GroupNames == {G, H}
BaseScopes == {READ_USERS, USERS}

\* the raw scope strings a caller may hold
ScopeStrings ==
    {READ_USERS, USERS,
     ScopeString(READ_USERS, USER, A), ScopeString(READ_USERS, USER, G),
     ScopeString(READ_USERS, GROUP, G), ScopeString(READ_USERS, SERVER, format_slash(A, D)),
     ScopeString(USERS, USER, A), ScopeString(USERS, GROUP, G)}

\* stores: any set of users; user a in any set of groups
Stores ==
    {[users |-> us, groups |-> gs, services |-> {}] :
        us \in SUBSET UserNames, gs \in [GroupNames -> SUBSET {A}]}

ValidStore(store) == \A g \in DOMAIN store.groups : store.groups[g] \subseteq store.users

Resources == {USER, SERVER, GROUP, SERVICE}

Orders ==
    {o \in [1..4 -> Resources] : \A i, j \in 1..4 : o[i] = o[j] => i = j}

\* the values a handler's resource parameters are bound to
ParamValues(resource) ==
    IF resource = USER THEN {A}
    ELSE IF resource = SERVER THEN {D, format_slash(A, D)}
    ELSE IF resource = GROUP THEN {G}
    ELSE {X}

RECURSIVE ArgumentsOver(_)
ArgumentsOver(rs) ==
    IF rs = {}
    THEN {<<>>}
    ELSE LET r == CHOOSE x \in rs : TRUE
             rest == ArgumentsOver(rs \ {r})
         IN  rest \cup {Append(d, <<r \o <<"_name">>, v>>) : d \in rest, v \in ParamValues(r)}

\* bound_sig.arguments: any of the resource parameters, with or without scope_filter
Arguments ==
    ArgumentsOver(Resources)
        \cup {Append(d, <<SCOPE_FILTER, None>>) : d \in ArgumentsOver(Resources)}

(***************************************************************************)
(* The state machine                                                       *)
(***************************************************************************)
NoResult == Outcome("", {}, 0, 0)
NoResponse == Response(FALSE, FALSE, {}, "")

Init ==
    /\ pc = "parse"
    /\ scope_list = <<>>
    /\ parsed_scopes = <<>>
    /\ db \in {s \in Stores : ValidStore(s)}
    /\ req_scope = <<>>
    /\ s_kwargs = <<>>
    /\ scope_filter = NoResult
    /\ response = NoResponse

\* parse_scopes: one iteration of `for scope in scope_list`
ParseEntry ==
    /\ pc = "parse"
    /\ Len(scope_list) < MaxLen
    /\ \E entry \in ScopeStrings :
        /\ scope_list' = Append(scope_list, entry)
        /\ parsed_scopes' = parse_scope(parsed_scopes, entry)
    /\ UNCHANGED <<pc, db, req_scope, s_kwargs, scope_filter, response>>

\* parse_scopes: return parsed_scopes (the loop's locals are gone)
ParseReturn ==
    /\ pc = "parse"
    /\ pc' = "ready"
    /\ scope_list' = <<>>
    /\ UNCHANGED <<parsed_scopes, db, req_scope, s_kwargs, scope_filter, response>>

\* needs_scope(scope)(func): one guarded call of a handler method
NeedsScope ==
    /\ pc = "ready"
    /\ \E sc \in BaseScopes, arguments \in Arguments, order \in Orders :
        LET kw == collect_kwargs(arguments, order, 1, <<>>)
            result == _check_scope(parsed_scopes, db, sc, kw)
        IN  /\ req_scope' = sc
            /\ s_kwargs' = kw
            /\ scope_filter' = result
            /\ response' = guard(result)
    /\ pc' = "done"
    /\ UNCHANGED <<scope_list, parsed_scopes, db>>

Next == ParseEntry \/ ParseReturn \/ NeedsScope

Spec == Init /\ [][Next]_vars

(***************************************************************************)
(* Vocabulary of the properties                                            *)
(***************************************************************************)
Done == pc = "done"
Parsing == pc = "parse"
IsMetascope(parsed, b) == DictHas(parsed, b) /\ DictGet(parsed, b) = ALL
IsFilterMap(parsed, b) ==
    DictHas(parsed, b) /\ DictGet(parsed, b) # ALL /\ DictGet(parsed, b).map # <<>>
SubScope == DictGet(parsed_scopes, req_scope).map
SingleResourceMode == ~DictHas(s_kwargs, SCOPE_FILTER)
EnumerationMode == DictHas(s_kwargs, SCOPE_FILTER)
Values(sub_scope, key) == IF DictHas(sub_scope, key) THEN ListSet(DictGet(sub_scope, key)) ELSE {}
BaseOf(entry) == partition(entry, "!")[1]
IsBare(entry) == partition(entry, "!")[3] = <<>>
IsPrefix(l, m) == Len(l) <= Len(m) /\ \A i \in DOMAIN l : l[i] = m[i]
MembersOf(store, groups) == {u \in store.users : user_groups(store, u) \cap groups # {}}

(***************************************************************************)
(* C1: when the requested scope maps to ALL, the check returns Allow for   *)
(* every attribute map (empty, enumeration mode, unmatched values, unknown *)
(* user) and makes no Identity Store or Filter Resolver call.              *)
(***************************************************************************)
C1_MetascopeAllows ==
    (Done /\ IsMetascope(parsed_scopes, req_scope))
        => scope_filter = Outcome("True", {}, 0, 0)

C1_Witness ==
    /\ Done
    /\ IsMetascope(parsed_scopes, req_scope)
    /\ EnumerationMode
    /\ DictHas(s_kwargs, USER)
    /\ DictGet(s_kwargs, USER) \notin db.users
    /\ scope_filter.kind = "True"

(***************************************************************************)
(* C2: single-resource mode, filter map without a group key, non-empty     *)
(* attribute map: Allow iff some attribute key is a key of the filter map  *)
(* and its value (the server value rewritten to "<user>/<server>" when a   *)
(* user attribute is present) is among the values granted for that key;    *)
(* otherwise HTTPError 404, never a plain Deny.                            *)
(***************************************************************************)
ComposedValue(kwargs, i) ==
    IF kwargs[i][1] = SERVER /\ DictHas(kwargs, USER)
    THEN format_slash(DictGet(kwargs, USER), kwargs[i][2])
    ELSE kwargs[i][2]

SomeAttributeMatches(kwargs, sub_scope) ==
    \E i \in DOMAIN kwargs :
        ComposedValue(kwargs, i) \in Values(sub_scope, kwargs[i][1])

C2_ExactMatchOr404 ==
    (/\ Done
     /\ SingleResourceMode
     /\ IsFilterMap(parsed_scopes, req_scope)
     /\ ~DictHas(SubScope, GROUP)
     /\ s_kwargs # <<>>)
        => scope_filter.kind =
               IF SomeAttributeMatches(s_kwargs, SubScope) THEN "True" ELSE "HTTPError404"

C2_Witness ==
    /\ Done
    /\ SingleResourceMode
    /\ IsFilterMap(parsed_scopes, req_scope)
    /\ DictKeys(SubScope) = {SERVER}
    /\ DictHas(s_kwargs, USER)
    /\ DictHas(s_kwargs, SERVER)
    /\ DictGet(s_kwargs, SERVER) = D
    /\ scope_filter.kind = "True"

(***************************************************************************)
(* C3: only attribute user=u, filter map with a group key: u among the     *)
(* explicit user values gives Allow with no Identity Store call; otherwise *)
(* the store is consulted once and the check gives Allow iff u exists and  *)
(* is in a granted group, and HTTPError 404 when u is unknown or in none.  *)
(***************************************************************************)
C3_GroupExpansion ==
    (/\ Done
     /\ Len(s_kwargs) = 1
     /\ DictHas(s_kwargs, USER)
     /\ IsFilterMap(parsed_scopes, req_scope)
     /\ DictHas(SubScope, GROUP))
        => LET u == DictGet(s_kwargs, USER)
           IN  IF u \in Values(SubScope, USER)
               THEN scope_filter = Outcome("True", {}, 0, 0)
               ELSE /\ scope_filter.find_user_calls = 1
                    /\ scope_filter.kind =
                           IF u \in MembersOf(db, Values(SubScope, GROUP))
                           THEN "True"
                           ELSE "HTTPError404"

C3_Witness ==
    /\ Done
    /\ Len(s_kwargs) = 1
    /\ DictHas(s_kwargs, USER)
    /\ IsFilterMap(parsed_scopes, req_scope)
    /\ DictHas(SubScope, GROUP)
    /\ DictGet(s_kwargs, USER) \notin Values(SubScope, USER)
    /\ DictGet(s_kwargs, USER) \in db.users
    /\ user_groups(db, DictGet(s_kwargs, USER)) = {H}
    /\ scope_filter.kind = "HTTPError404"

(***************************************************************************)
(* C4: for a filtered scope and a single-resource attribute map naming a   *)
(* user u that is not among the explicit user values and, if it exists, is *)
(* in no granted group, the check has the same outcome against every store *)
(* that differs only in whether u exists.                                  *)
(***************************************************************************)
Twins(store, u, granted) ==
    {t \in Stores :
        /\ ValidStore(t)
        /\ t.users \ {u} = store.users \ {u}
        /\ (u \in t.users) # (u \in store.users)
        /\ t.services = store.services
        /\ \A g \in DOMAIN store.groups : t.groups[g] \ {u} = store.groups[g] \ {u}
        /\ user_groups(t, u) \cap granted = {}}

C4_ExistenceIndistinguishable ==
    (/\ Done
     /\ SingleResourceMode
     /\ IsFilterMap(parsed_scopes, req_scope)
     /\ DictHas(s_kwargs, USER)
     /\ DictGet(s_kwargs, USER) \notin Values(SubScope, USER)
     /\ user_groups(db, DictGet(s_kwargs, USER)) \cap Values(SubScope, GROUP) = {})
        => \A t \in Twins(db, DictGet(s_kwargs, USER), Values(SubScope, GROUP)) :
               _check_scope(parsed_scopes, t, req_scope, s_kwargs).kind = scope_filter.kind

(***************************************************************************)
(* C5: an empty attribute map against a scope that is not a metascope      *)
(* (absent, or a filter map) gives plain Deny: no error and no Identity    *)
(* Store or Filter Resolver call.                                          *)
(***************************************************************************)
C5_EmptyAttributesDeny ==
    (Done /\ s_kwargs = <<>> /\ ~IsMetascope(parsed_scopes, req_scope))
        => scope_filter = Outcome("False", {}, 0, 0)

C5_Witness ==
    /\ Done
    /\ s_kwargs = <<>>
    /\ IsFilterMap(parsed_scopes, req_scope)
    /\ scope_filter.kind = "False"

(***************************************************************************)
(* C6: the order in which the attribute keys are evaluated does not change *)
(* the outcome of the check.                                               *)
(***************************************************************************)
Reorderings(kwargs) ==
    {[i \in DOMAIN kwargs |-> kwargs[f[i]]] :
        f \in {g \in [DOMAIN kwargs -> DOMAIN kwargs] :
                  \A i, j \in DOMAIN kwargs : g[i] = g[j] => i = j}}

C6_OrderIndependent ==
    Done => \A kw \in Reorderings(s_kwargs) :
                LET other == _check_scope(parsed_scopes, db, req_scope, kw)
                IN  other.kind = scope_filter.kind /\ other.ids = scope_filter.ids

(***************************************************************************)
(* C7: enumeration mode for read:users with explicit user values V and     *)
(* optional group values G returns a subset of (V \cap existing users)     *)
(* \cup (members of a group in G).                                         *)
(***************************************************************************)
C7_EnumerationSubset ==
    (/\ Done
     /\ EnumerationMode
     /\ req_scope = READ_USERS
     /\ IsFilterMap(parsed_scopes, req_scope)
     /\ DictKeys(SubScope) \subseteq {USER, GROUP})
        => /\ scope_filter.kind = "set"
           /\ scope_filter.ids \subseteq
                  (Values(SubScope, USER) \cap db.users)
                      \cup MembersOf(db, Values(SubScope, GROUP))

(***************************************************************************)
(* C8 as stated: while parsing, a scope name that holds a non-empty filter *)
(* map is never replaced by the metascope marker.                          *)
(***************************************************************************)
C8_FilterMapNeverReplaced ==
    [][\A b \in BaseScopes :
          IsFilterMap(parsed_scopes, b) => ~IsMetascope(parsed_scopes', b)]_vars

(***************************************************************************)
(* C8 amended: while parsing, a scope name that holds a non-empty filter   *)
(* map is replaced by the metascope marker exactly by a bare entry for     *)
(* that same name, which discards the recorded filter values; every other  *)
(* entry keeps it a filter map with every recorded value in place.         *)
(***************************************************************************)
C8_FilterMapReplacedOnlyByBareEntry ==
    [][\A b \in BaseScopes :
          (IsFilterMap(parsed_scopes, b) /\ Parsing /\ Len(scope_list') = Len(scope_list) + 1)
              => IF scope_list'[Len(scope_list')] = b
                 THEN DictGet(parsed_scopes', b) = ALL
                 ELSE /\ IsFilterMap(parsed_scopes', b)
                      /\ \A k \in DictKeys(DictGet(parsed_scopes, b).map) :
                             /\ DictHas(DictGet(parsed_scopes', b).map, k)
                             /\ IsPrefix(DictGet(DictGet(parsed_scopes, b).map, k),
                                         DictGet(DictGet(parsed_scopes', b).map, k))]_vars

C8_Witness ==
    /\ Parsing
    /\ Len(scope_list) = 2
    /\ ~IsBare(scope_list[1])
    /\ IsBare(scope_list[2])
    /\ BaseOf(scope_list[1]) = scope_list[2]
    /\ parsed_scopes = << <<scope_list[2], ALL>> >>

(***************************************************************************)
(* C9: a bare entry s makes s the metascope marker, and s stays the        *)
(* metascope marker after every later step: filtered entries for s are     *)
(* ignored; and an entry never changes the value of another scope name.    *)
(***************************************************************************)
C9_MetascopeDominates ==
    [][\A b \in BaseScopes :
          /\ (Len(scope_list') = Len(scope_list) + 1 /\ scope_list'[Len(scope_list')] = b)
                 => IsMetascope(parsed_scopes', b)
          /\ IsMetascope(parsed_scopes, b) => IsMetascope(parsed_scopes', b)
          /\ (Len(scope_list') = Len(scope_list) + 1 /\ BaseOf(scope_list'[Len(scope_list')]) # b)
                 => /\ DictHas(parsed_scopes', b) = DictHas(parsed_scopes, b)
                    /\ DictHas(parsed_scopes, b)
                           => DictGet(parsed_scopes', b) = DictGet(parsed_scopes, b)]_vars

C9_Witness ==
    /\ Parsing
    /\ Len(scope_list) = 2
    /\ IsBare(scope_list[1])
    /\ ~IsBare(scope_list[2])
    /\ BaseOf(scope_list[2]) = scope_list[1]
    /\ parsed_scopes = << <<scope_list[1], ALL>> >>

(***************************************************************************)
(* C10: the guard runs the wrapped operation only when the check returned  *)
(* Allow or a non-empty identifier set, passing exactly that set as        *)
(* scope_filter; Deny or an empty set raises 403; an error raised by the   *)
(* check propagates; in the failing cases the operation is not invoked.    *)
(***************************************************************************)
C10_GuardRunsOnlyWhenAllowed ==
    Done =>
        /\ response.called
               <=> (scope_filter.kind = "True"
                       \/ (scope_filter.kind = "set" /\ scope_filter.ids # {}))
        /\ (response.called /\ scope_filter.kind = "set")
               => (response.filtered /\ response.ids = scope_filter.ids)
        /\ (response.called /\ scope_filter.kind = "True") => ~response.filtered
        /\ (scope_filter.kind = "False" \/ (scope_filter.kind = "set" /\ scope_filter.ids = {}))
               => response.error = "HTTPError403"
        /\ scope_filter.kind \in {"HTTPError404", "AttributeError"}
               => response.error = scope_filter.kind
        /\ response.called => response.error = ""

C10_Witness ==
    /\ Done
    /\ scope_filter.kind = "set"
    /\ scope_filter.ids = {}
    /\ ~response.called
    /\ response.error = "HTTPError403"

====
